---- MODULE Spec2Model ----
(***************************************************************************)
(* A model of the lazysort crate: the lazy quicksort iterators of          *)
(* src/lib.rs (LazySortIterator, LazySortIteratorPartialFirst,             *)
(* LazySortIteratorPartialLast, LazySortIteratorBy) and the heap of        *)
(* src/heap.rs.                                                            *)
(*                                                                         *)
(* Buffer indices are 0-based as in the source; At(data, i) reads the      *)
(* element at Rust index i of the TLA+ sequence data.                      *)
(***************************************************************************)
EXTENDS Integers, Sequences, FiniteSets, Bags, TLC

VARIABLES
  \* ---- lazy sort iterator (src/lib.rs) ----
  input,      \* the collected source sequence S (history)
  strategy,   \* which iterator struct was built
  by,         \* the comparator the iterator carries
  data,       \* field data: Vec<T>
  work,       \* field work: Vec<(usize, usize)>
  out,        \* the values next() has returned so far (history)
  ret,        \* what the last next() returned: <<>> is None, <<v>> is Some(v)
  nones,      \* how many times next() has returned None, counted up to MaxNones (history)
  fault,      \* "none", or the panic / out-of-bounds access a call ran into
  ncmp,       \* comparator calls made by the last next()
  pcalls,     \* partition invocations of the last next(): <<lower, upper, p, q>>
  qcalls,     \* qsort invocations of the last next(): <<lower, upper>>
  \* ---- partition applied to an arbitrary range ----
  pt,
  \* ---- heap (src/heap.rs) ----
  trees,      \* field trees: Vec<Tree<T>>
  min,        \* field min: Option<usize>; <<>> is None, <<i>> is Some(i)
  added,      \* the values add() was given (history)
  taken,      \* the values take() returned (history)
  hret,       \* what the last take() returned; <<>> is None
  hfault,     \* "none", or the panic a heap call ran into
  phase       \* "adding" until the first take(), then "taking"; "mixed" once an add() follows a take()

lsvars == <<input, strategy, by, data, work, out, ret, nones, fault, ncmp, pcalls, qcalls>>
heapvars == <<trees, min, added, taken, hret, hfault, phase>>
vars == <<input, strategy, by, data, work, out, ret, nones, fault, ncmp, pcalls, qcalls,
          pt, trees, min, added, taken, hret, hfault, phase>>

\* ------------------------------------------------------------------ bounds

\* longest input sequence
MaxLen == 5
\* element values are 1..MaxVal (plus NaN under the PartialOrd iterators)
MaxVal == 3
\* longest input sorted by a key comparator (sorted_by)
MaxByLen == 3
\* longest input under the arbitrary (inconsistent) comparator
MaxAnyLen == 4
\* add() calls on one heap
MaxAdds == 5
\* heap values are 1..MaxHeapVal
MaxHeapVal == 3
\* longest buffer partition is applied to on its own
MaxPartLen == 4
\* next() calls counted after exhaustion
MaxNones == 2

\* ------------------------------------------------------------------ elements

\* a float that partial_cmp cannot order against anything (f64::NAN)
NaN == 0

Vals == 1 .. MaxVal
Floats == Vals \cup {NaN}

Ordering == {"Less", "Equal", "Greater"}

None == <<>>
Some(v) == <<v>>

SeqsUpTo(S, n) == UNION {[1 .. k -> S] : k \in 0 .. n}

At(d, i) == d[i + 1]
InBounds(d, i) == i >= 0 /\ i < Len(d)

\* ------------------------------------------------------------------ comparators

\* Ord::cmp on integers
OrdCmp(a, b) == IF a < b THEN "Less" ELSE IF a > b THEN "Greater" ELSE "Equal"

\* PartialOrd::partial_cmp on floats: None when either side is NaN
partial_cmp(a, b) == IF a = NaN \/ b = NaN THEN None ELSE Some(OrdCmp(a, b))

partial_cmp_first(a, b) ==
  IF partial_cmp(a, b) = None THEN "Less" ELSE partial_cmp(a, b)[1]

partial_cmp_last(a, b) ==
  IF partial_cmp(a, b) = None THEN "Greater" ELSE partial_cmp(a, b)[1]

\* a sorted_by closure comparing by a key of the element (tests::sorted_by_test)
KeyCmp(key, a, b) == OrdCmp(key[a], key[b])

\* The comparator the iterator hands to qsort.  F = [strategy, by, oracle]:
\* for a closure of kind "any" (no consistency at all) the n-th call of one
\* next() answers oracle[n].
Compare(F, n, a, b) ==
  CASE F.strategy = "LazySortIterator" -> OrdCmp(a, b)
    [] F.strategy = "LazySortIteratorPartialFirst" -> partial_cmp_first(a, b)
    [] F.strategy = "LazySortIteratorPartialLast" -> partial_cmp_last(a, b)
    [] F.strategy = "LazySortIteratorBy" ->
         IF F.by.kind = "key" THEN KeyCmp(F.by.key, a, b) ELSE F.oracle[n + 1]

\* ------------------------------------------------------------------ lib.rs

\* mutant: the midpoint's offset without the start of the range
pivot_offset_only(lower, upper) == (lower - upper) \div 2

pivot(lower, upper) == upper + ((lower - upper) \div 2)

\* mutant: a swap that overwrites one side instead of exchanging
swap_overwrite(d, a, b) == [d EXCEPT ![a + 1] = d[b + 1]]

\* data.swap(a, b)
swap(d, a, b) == [d EXCEPT ![a + 1] = d[b + 1], ![b + 1] = d[a + 1]]

\* cmp_by(by, data, a, b) == Greater
cmp_by(F, n, d, a, b) == Compare(F, n, At(d, a), At(d, b))

\* mutant: the comparison of partition reversed
MovesToFront_reversed(c) == c = "Less"

\* mutant: elements Equal to the pivot are moved to the front as well
MovesToFront_or_equal(c) == c # "Less"

\* the test partition applies to every non-pivot element
MovesToFront(c) == c = "Greater"

\* the while loop of partition; ps = [data, ncmp, fault]
RECURSIVE partition_loop(_, _, _, _, _)
partition_loop(F, ps, lower, i, nextp) ==
  IF ~(i < lower) THEN [ps |-> ps, nextp |-> nextp]
  ELSE IF ~InBounds(ps.data, i) \/ ~InBounds(ps.data, lower)
    THEN [ps |-> [ps EXCEPT !.fault = "oob"], nextp |-> nextp]
  ELSE
    LET c == cmp_by(F, ps.ncmp, ps.data, i, lower)
        ps1 == [ps EXCEPT !.ncmp = @ + 1]
    IN IF MovesToFront(c)
         THEN IF ~InBounds(ps.data, nextp)
                THEN [ps |-> [ps1 EXCEPT !.fault = "oob"], nextp |-> nextp]
                ELSE partition_loop(F,
                       [ps1 EXCEPT !.data = IF i # nextp THEN swap(@, i, nextp) ELSE @],
                       lower, i + 1, nextp + 1)
         ELSE partition_loop(F, ps1, lower, i + 1, nextp)

\* partition(by, data, lower, upper, p); returns [data, ncmp, fault, ret]
partition(F, ps, lower, upper, p) ==
  IF ~InBounds(ps.data, lower) \/ ~InBounds(ps.data, p)
    THEN [data |-> ps.data, ncmp |-> ps.ncmp, fault |-> "oob", ret |-> upper]
  ELSE
    LET r == partition_loop(F, [ps EXCEPT !.data = swap(@, lower, p)], lower, upper, upper)
    IN IF r.ps.fault # "none"
         THEN [data |-> r.ps.data, ncmp |-> r.ps.ncmp, fault |-> r.ps.fault, ret |-> r.nextp]
       ELSE IF ~InBounds(r.ps.data, r.nextp) \/ ~InBounds(r.ps.data, lower)
         THEN [data |-> r.ps.data, ncmp |-> r.ps.ncmp, fault |-> "oob", ret |-> r.nextp]
       ELSE [data |-> swap(r.ps.data, r.nextp, lower), ncmp |-> r.ps.ncmp,
             fault |-> "none", ret |-> r.nextp]

\* mutant: returns the last element without removing it
pop_expect_keep(st) ==
  IF Len(st.data) = 0 THEN [st EXCEPT !.fault = "expect"]
  ELSE [st EXCEPT !.ret = Some(st.data[Len(st.data)])]

\* data.pop().expect("Non empty vector"); st is the state qsort threads
pop_expect(st) ==
  IF Len(st.data) = 0 THEN [st EXCEPT !.fault = "expect"]
  ELSE [st EXCEPT !.ret = Some(st.data[Len(st.data)]),
                  !.data = SubSeq(@, 1, Len(@) - 1)]

\* mutant: the two-element arm never swaps
qsort_pair_noswap(F, st, lower, upper) ==
  IF ~InBounds(st.data, lower) \/ ~InBounds(st.data, upper)
    THEN [st EXCEPT !.fault = "oob"]
  ELSE pop_expect([st EXCEPT !.ncmp = @ + 1, !.work = Append(@, <<upper, upper>>)])

\* the arm `1 =>` of qsort: a range of two elements
qsort_pair(F, st, lower, upper) ==
  IF ~InBounds(st.data, lower) \/ ~InBounds(st.data, upper)
    THEN [st EXCEPT !.fault = "oob"]
  ELSE
    LET c == cmp_by(F, st.ncmp, st.data, lower, upper)
    IN pop_expect([st EXCEPT !.data = IF c = "Greater" THEN swap(@, lower, upper) ELSE @,
                             !.ncmp = @ + 1,
                             !.work = Append(@, <<upper, upper>>)])

\* mutant: the far range without the case p == lower
far_range_always_p(p, lower, upper) == <<p, upper>>

\* mutant: the far range starting at index 0 instead of the range's upper
far_range_from_zero(p, lower, upper) == IF p = lower THEN <<p - 1, 0>> ELSE <<p, 0>>

\* what the arm `_ =>` of qsort pushes for the pivot's final index p: the far range
far_range(p, lower, upper) == IF p = lower THEN <<p - 1, upper>> ELSE <<p, upper>>

\* mutant: the near range without the case p == lower
near_upper_always_next(p, lower) == p + 1

\* the upper end of the near range the arm `_ =>` recurses into
near_upper(p, lower) == IF p = lower THEN p ELSE p + 1

\* qsort(by, data, work, lower, upper); st = [data, work, ncmp, fault, ret, pcalls, qcalls]
RECURSIVE qsort(_, _, _, _)
qsort(F, st0, lower, upper) ==
  LET st == [st0 EXCEPT !.qcalls = Append(@, <<lower, upper>>)] IN
  IF lower - upper < 0 THEN [st EXCEPT !.fault = "underflow"]
  ELSE IF lower - upper = 0 THEN pop_expect(st)
  ELSE IF lower - upper = 1 THEN qsort_pair(F, st, lower, upper)
  ELSE
    LET p0 == pivot(lower, upper)
        r == partition(F, [data |-> st.data, ncmp |-> st.ncmp, fault |-> st.fault],
                       lower, upper, p0)
        p == r.ret
        st1 == [st EXCEPT !.data = r.data, !.ncmp = r.ncmp, !.fault = r.fault,
                          !.pcalls = Append(@, <<lower, upper, p0, p>>)]
        far == far_range(p, lower, upper)
    IN IF r.fault # "none" THEN st1
       ELSE IF far[1] < 0 THEN [st1 EXCEPT !.fault = "underflow"]
       ELSE qsort(F, [st1 EXCEPT !.work = Append(@, far)], lower, near_upper(p, lower))

\* mutant: no initial range for a buffer of one element
make_work_gt1(len) == IF len > 1 THEN << <<len - 1, 0>> >> ELSE << >>

make_work(len) == IF len > 0 THEN << <<len - 1, 0>> >> ELSE << >>

\* size_hint(&self)
size_hint == <<Len(data), Some(Len(data))>>

\* worst-case number of comparator calls of one qsort on a range of m elements
MaxCmps(m) == (m * (m - 1)) \div 2

\* ------------------------------------------------------------------ heap.rs

\* Tree::new(data)
Tree_new(v) == [node |-> v, subtrees |-> None]

\* Tree::order
order(t) == IF t.subtrees = None THEN 0 ELSE Len(t.subtrees[1])

\* mutant: merge never exchanges the two trees
MergeSwaps_never(a, b) == FALSE

\* the test Tree::merge applies: the tree merged into stays the root unless its node is Greater
MergeSwaps(a, b) == OrdCmp(a, b) = "Greater"

\* mutant: merge keeps the root and loses the other tree
Tree_merge_drop(self, other_tree) ==
  LET root == IF MergeSwaps(self.node, other_tree.node) THEN other_tree ELSE self
      subs == IF root.subtrees = None THEN << >> ELSE root.subtrees[1]
  IN [node |-> root.node, subtrees |-> Some(subs)]

\* Tree::merge(&mut self, other_tree, by): the tree self becomes
Tree_merge(self, other_tree) ==
  LET root == IF MergeSwaps(self.node, other_tree.node) THEN other_tree ELSE self
      child == IF MergeSwaps(self.node, other_tree.node) THEN self ELSE other_tree
      subs == IF root.subtrees = None THEN << >> ELSE root.subtrees[1]
  IN [node |-> root.node, subtrees |-> Some(Append(subs, child))]

\* Vec::swap_remove(i): the vector left (the last element takes the place of the i-th)
swap_remove(v, i) ==
  IF i = Len(v) - 1 THEN SubSeq(v, 1, Len(v) - 1)
  ELSE [SubSeq(v, 1, Len(v) - 1) EXCEPT ![i + 1] = v[Len(v)]]

\* HashMap::insert / HashMap::remove on prev_pos, a function from orders to positions
map_insert(m, k, v) == [x \in DOMAIN m \cup {k} |-> IF x = k THEN v ELSE m[x]]
map_remove(m, k) == [x \in DOMAIN m \ {k} |-> m[x]]

\* the comparison find_min makes to keep the position of the least root
LessThanMin(ts, m, i) == OrdCmp(ts[m + 1].node, ts[i + 1].node) = "Greater"

\* the loop of find_min; fs = [trees, prev_pos, idx, min, fault]
RECURSIVE find_min_loop(_)
find_min_loop(fs) ==
  IF ~InBounds(fs.trees, fs.idx) THEN [fs EXCEPT !.fault = "index"]
  ELSE
    LET o == order(At(fs.trees, fs.idx))
        fs1 ==
          IF o \in DOMAIN fs.prev_pos
            THEN LET pos == fs.prev_pos[o]
                     idx_tree == At(fs.trees, fs.idx)
                     ts1 == swap_remove(fs.trees, fs.idx)
                 IN IF ~InBounds(ts1, pos) \/ ~InBounds(ts1, fs.min)
                      THEN [fs EXCEPT !.fault = "index"]
                      ELSE LET ts2 == [ts1 EXCEPT ![pos + 1] = Tree_merge(@, idx_tree)]
                           IN [fs EXCEPT !.trees = ts2,
                                         !.prev_pos = map_insert(map_remove(@, o), o + 1, pos),
                                         !.min = IF LessThanMin(ts2, fs.min, pos) THEN pos ELSE @]
            ELSE IF ~InBounds(fs.trees, fs.min)
                   THEN [fs EXCEPT !.fault = "index"]
                   ELSE [fs EXCEPT !.prev_pos = map_insert(@, o, fs.idx),
                                   !.min = IF LessThanMin(fs.trees, fs.min, fs.idx)
                                             THEN fs.idx ELSE @,
                                   !.idx = @ + 1]
    IN IF fs1.fault # "none" THEN fs1
       ELSE IF fs1.idx >= Len(fs1.trees) THEN fs1
       ELSE find_min_loop(fs1)

\* Heap::find_min: [success, trees, min, fault]
find_min(ts, mn) ==
  IF Len(ts) = 0 THEN [success |-> FALSE, trees |-> ts, min |-> mn, fault |-> "none"]
  ELSE LET r == find_min_loop([trees |-> ts, prev_pos |-> << >>, idx |-> 0, min |-> 0,
                               fault |-> "none"])
       IN [success |-> TRUE, trees |-> r.trees, min |-> Some(r.min), fault |-> r.fault]

\* Heap::add: the value of field min after add(v)
add_min(ts, mn, v) ==
  IF mn = None THEN Some(0)
  ELSE IF OrdCmp(At(ts, mn[1]).node, v) = "Greater" THEN Some(Len(ts)) ELSE mn

\* self.trees[min] of add is inside the vector
mn_ok(ts, mn) == mn = None \/ InBounds(ts, mn[1])

\* Heap::add(data)
add(v) ==
  /\ hfault = "none"
  /\ Len(added) < MaxAdds
  /\ IF mn_ok(trees, min)
       THEN /\ min' = add_min(trees, min, v)
            /\ trees' = Append(trees, Tree_new(v))
            /\ UNCHANGED hfault
       ELSE /\ hfault' = "index"
            /\ UNCHANGED <<trees, min>>
  /\ added' = Append(added, v)
  /\ phase' = IF phase = "adding" THEN "adding" ELSE "mixed"
  /\ UNCHANGED <<taken, hret, pt>>
  /\ UNCHANGED lsvars

\* Heap::take()
take ==
  /\ hfault = "none"
  /\ LET f == IF min = None THEN find_min(trees, min)
              ELSE [success |-> TRUE, trees |-> trees, min |-> min, fault |-> "none"]
     IN IF ~f.success
          THEN /\ hret' = None
               /\ UNCHANGED <<trees, min, taken, hfault>>
        ELSE IF f.fault # "none" \/ ~InBounds(f.trees, f.min[1])
          THEN /\ hfault' = "index"
               /\ UNCHANGED <<trees, min, taken, hret>>
        ELSE LET lowest_tree == At(f.trees, f.min[1])
                 rest == swap_remove(f.trees, f.min[1])
             IN /\ trees' = IF lowest_tree.subtrees = None THEN rest
                            ELSE rest \o lowest_tree.subtrees[1]
                /\ min' = None
                /\ hret' = Some(lowest_tree.node)
                /\ taken' = Append(taken, lowest_tree.node)
                /\ UNCHANGED hfault
  /\ phase' = IF phase = "adding" THEN "taking" ELSE phase
  /\ UNCHANGED <<added, pt>>
  /\ UNCHANGED lsvars

\* ------------------------------------------------------------------ iterator actions

\* Iterator::next (add_next!)
next ==
  /\ fault = "none"
  /\ IF work = << >>
       THEN /\ ret' = None
            /\ nones' = IF nones < MaxNones THEN nones + 1 ELSE nones
            /\ ncmp' = 0
            /\ pcalls' = << >>
            /\ qcalls' = << >>
            /\ UNCHANGED <<data, work, out, fault>>
       ELSE LET top == work[Len(work)]
                lower == top[1]
                upper == top[2]
                m == IF lower >= upper THEN lower - upper + 1 ELSE 0
            IN \E oracle \in IF strategy = "LazySortIteratorBy" /\ by.kind = "any"
                               THEN [1 .. MaxCmps(m) -> Ordering]
                               ELSE {<< >>} :
                 LET F == [strategy |-> strategy, by |-> by, oracle |-> oracle]
                     r == qsort(F, [data |-> data, work |-> SubSeq(work, 1, Len(work) - 1),
                                    ncmp |-> 0, fault |-> "none", ret |-> None,
                                    pcalls |-> << >>, qcalls |-> << >>],
                                lower, upper)
                 IN /\ data' = r.data
                    /\ work' = r.work
                    /\ ncmp' = r.ncmp
                    /\ fault' = r.fault
                    /\ ret' = r.ret
                    /\ pcalls' = r.pcalls
                    /\ qcalls' = r.qcalls
                    /\ out' = IF r.fault = "none" THEN out \o r.ret ELSE out
                    /\ UNCHANGED nones
  /\ UNCHANGED <<input, strategy, by, pt>>
  /\ UNCHANGED heapvars

\* ------------------------------------------------------------------ construction

NoPt == [done |-> FALSE]
HeapIdle ==
  /\ trees = << >> /\ min = None /\ added = << >> /\ taken = << >>
  /\ hret = None /\ hfault = "none" /\ phase = "adding"

\* new(data) / new(data, by) after self.collect()
New(s, strat, b) ==
  /\ input = s
  /\ strategy = strat
  /\ by = b
  /\ data = s
  /\ work = make_work(Len(s))
  /\ out = << >>
  /\ ret = None
  /\ nones = 0
  /\ fault = "none"
  /\ ncmp = 0
  /\ pcalls = << >>
  /\ qcalls = << >>

NoBy == [kind |-> "fn"]

\* the key functions of sorted_by closures, one for each total preorder of Vals:
\* the ranks of the elements, 1..m for some m
Keys == {key \in [Vals -> Vals] : \E m \in Vals : {key[v] : v \in Vals} = 1 .. m}

\* sorted(), sorted_partial_first(), sorted_partial_last(), sorted_by(key comparator)
Init ==
  /\ \/ \E s \in SeqsUpTo(Vals, MaxLen) : New(s, "LazySortIterator", NoBy)
     \/ \E s \in SeqsUpTo(Floats, MaxLen) : New(s, "LazySortIteratorPartialFirst", NoBy)
     \/ \E s \in SeqsUpTo(Floats, MaxLen) : New(s, "LazySortIteratorPartialLast", NoBy)
     \/ \E s \in SeqsUpTo(Vals, MaxByLen), key \in Keys :
          New(s, "LazySortIteratorBy", [kind |-> "key", key |-> key])
  /\ pt = NoPt
  /\ HeapIdle

\* sorted_by(closure) with a closure that answers anything, differently from
\* call to call; its answers do not depend on the elements, which are the
\* distinct values 1..n
AnyBy == [kind |-> "any"]

InitAny ==
  /\ \E n \in 0 .. MaxAnyLen : New([i \in 1 .. n |-> i], "LazySortIteratorBy", AnyBy)
  /\ pt = NoPt
  /\ HeapIdle

SpecAny == InitAny /\ [][next]_vars

\* partition on any range [upper, lower] of any buffer with any pivot index p in
\* it, under each deterministic comparator
NewPt(strat, b, d, lower, upper, p) ==
  pt = [done |-> FALSE, strategy |-> strat, by |-> b, pre |-> d, lower |-> lower,
        upper |-> upper, p |-> p, post |-> d, q |-> upper, fault |-> "none"]

InitPartition ==
  /\ New(<< >>, "LazySortIterator", NoBy)
  /\ HeapIdle
  /\ \E strat \in {"LazySortIterator", "LazySortIteratorPartialFirst",
                    "LazySortIteratorPartialLast", "LazySortIteratorBy"} :
       \E d \in SeqsUpTo(IF strat \in {"LazySortIterator", "LazySortIteratorBy"}
                           THEN Vals ELSE Floats,
                         IF strat = "LazySortIteratorBy" THEN MaxByLen ELSE MaxPartLen) :
         \E b \in IF strat = "LazySortIteratorBy"
                     THEN {[kind |-> "key", key |-> k] : k \in Keys} ELSE {NoBy} :
           \E lower \in 0 .. Len(d) - 1 : \E upper \in 0 .. lower : \E p \in upper .. lower :
             NewPt(strat, b, d, lower, upper, p)

\* one call partition(by, data, lower, upper, p)
Partition ==
  /\ ~pt.done
  /\ LET F == [strategy |-> pt.strategy, by |-> pt.by, oracle |-> << >>]
         r == partition(F, [data |-> pt.pre, ncmp |-> 0, fault |-> "none"],
                        pt.lower, pt.upper, pt.p)
     IN pt' = [pt EXCEPT !.done = TRUE, !.post = r.data, !.q = r.ret, !.fault = r.fault]
  /\ UNCHANGED lsvars
  /\ UNCHANGED heapvars

SpecPartition == InitPartition /\ [][Partition]_vars

\* Heap::new(Ord::cmp)
InitHeap ==
  /\ New(<< >>, "LazySortIterator", NoBy)
  /\ pt = NoPt
  /\ HeapIdle

NextHeap ==
  \/ \E v \in 1 .. MaxHeapVal : add(v)
  \/ take

SpecHeap == InitHeap /\ [][NextHeap]_vars

Next == next

Spec == Init /\ [][Next]_vars

\* ------------------------------------------------------------------ properties of the iterator

exhausted == nones > 0

Range(s) == {s[i] : i \in DOMAIN s}
Count(s, v) == Cardinality({i \in DOMAIN s : s[i] = v})

\* the comparator of the iterator as a function of two elements (no oracle)
Cmp(a, b) == Compare([strategy |-> strategy, by |-> by, oracle |-> << >>], 0, a, b)

\* the ordering is a consistent total preorder on the input: Ord::cmp, a key
\* comparator, or partial_cmp on floats none of which is NaN
ValidOrdering ==
  \/ strategy = "LazySortIterator"
  \/ strategy = "LazySortIteratorBy" /\ by.kind = "key"
  \/ /\ strategy \in {"LazySortIteratorPartialFirst", "LazySortIteratorPartialLast"}
     /\ NaN \notin Range(input)

\* equal elements are indistinguishable (Equal only between identical values)
EqualIsIdentity == \A a, b \in Range(input) : Cmp(a, b) = "Equal" => a = b

Ascending(s) == \A i, j \in DOMAIN s : i < j => Cmp(s[i], s[j]) # "Greater"

\* a reference full sort: stable insertion sort under Cmp
RECURSIVE RefInsert(_, _)
RefInsert(s, x) ==
  IF s = << >> THEN <<x>>
  ELSE IF Cmp(x, s[Len(s)]) = "Less"
    THEN Append(RefInsert(SubSeq(s, 1, Len(s) - 1), x), s[Len(s)])
    ELSE Append(s, x)

RECURSIVE ReferenceSort(_)
ReferenceSort(s) ==
  IF s = << >> THEN << >>
  ELSE RefInsert(ReferenceSort(SubSeq(s, 1, Len(s) - 1)), s[Len(s)])

\* out agrees with the first Len(out) places of the reference sort: place by place
\* the elements compare Equal, and are the same elements when Equal is identity
PrefixOfSort ==
  LET ref == ReferenceSort(input) IN
  /\ Len(out) <= Len(ref)
  /\ \A i \in DOMAIN out : Cmp(out[i], ref[i]) = "Equal"
  /\ EqualIsIdentity => out = SubSeq(ref, 1, Len(out))

SameMultiset == \A v \in Range(input) \cup Range(out) \cup Range(data) :
                  Count(out, v) + Count(data, v) = Count(input, v)

\* C1: under a consistent total preorder, a full drain (next() until None) yields
\* a sequence that is ascending under the comparator and equal to a reference
\* full sort of the input (up to the order of elements that compare Equal).
C1_DrainIsSorted ==
  (exhausted /\ ValidOrdering) =>
     /\ Ascending(out)
     /\ Len(out) = Len(input)
     /\ \A v \in Range(input) \cup Range(out) : Count(out, v) = Count(input, v)
     /\ PrefixOfSort

C1_Witness ==
  /\ exhausted /\ ValidOrdering
  /\ strategy = "LazySortIteratorBy"
  /\ Len(input) >= 3
  /\ ~Ascending(input)
  /\ \E i, j \in DOMAIN input : input[i] # input[j] /\ Cmp(input[i], input[j]) = "Equal"
  /\ Len(out) = Len(input)

\* C2: under a valid ordering, after any number of next() calls the values
\* returned so far are the first values of a full sort of the input, and no
\* returned value is greater than an element still in the buffer.
C2_PrefixIsSorted ==
  ValidOrdering =>
     /\ PrefixOfSort
     /\ \A i \in DOMAIN out : \A j \in DOMAIN data : Cmp(out[i], data[j]) # "Greater"

C2_Witness ==
  /\ ValidOrdering
  /\ Len(input) >= 4
  /\ Len(out) = 2
  /\ Len(work) >= 2
  /\ \E j \in DOMAIN data : Cmp(out[2], data[j]) = "Less"
  /\ ~Ascending(input)

\* C3: whatever the ordering strategy, the values returned so far together with
\* the elements still in the buffer are the multiset of the input; a full drain
\* returns exactly |S| values, and on an empty input the first next() returns None.
C3_MultisetPreserved ==
  /\ SameMultiset
  /\ Len(out) + Len(data) = Len(input)
  /\ exhausted => (Len(out) = Len(input) /\ data = << >>)
  /\ input = << >> => (work = << >> /\ out = << >> /\ ret = None)

C3_Witness ==
  /\ exhausted
  /\ strategy = "LazySortIteratorPartialFirst"
  /\ NaN \in Range(input)
  /\ Len(input) >= 4
  /\ \E v \in Range(input) : Count(input, v) >= 2

\* C4: exhaustion is terminal: once next() has returned None, every later next()
\* returns None and leaves the (empty) buffer and worklist unchanged; and next()
\* returns None only when the buffer is empty.
C4_ExhaustionIsTerminal ==
  [][/\ exhausted => /\ ret' = None
                     /\ fault' = "none"
                     /\ data = << >> /\ work = << >>
                     /\ data' = data /\ work' = work /\ out' = out
     /\ (nones' # nones) => (ret' = None /\ data = << >> /\ fault' = "none")]_vars

C4_Witness ==
  /\ nones >= 2
  /\ Len(input) >= 3
  /\ Len(out) = Len(input)
  /\ ret = None

\* C5: size_hint() is (r, Some(r)) with r = |S| - (number of values returned so
\* far), and r = 0 once exhausted.
C5_SizeHintExact ==
  LET r == Len(input) - Len(out) IN
  /\ size_hint = <<r, Some(r)>>
  /\ exhausted => r = 0

C5_Witness ==
  /\ Len(input) >= 4
  /\ Len(out) = 2
  /\ ~exhausted
  /\ size_hint = <<2, Some(2)>>

\* C6: with an arbitrary comparator (inconsistent, non-transitive, changing
\* between calls) no next() call goes wrong: no unchecked read or swap outside
\* the buffer, no underflow of lower - upper or p - 1, no pop of an empty
\* buffer; only the order of the output is affected (the elements are kept).
C6_NoFaultAnyComparator ==
  /\ fault = "none"
  /\ SameMultiset
  /\ \A c \in Range(pcalls) : c[2] <= c[4] /\ c[4] <= c[1] /\ c[1] <= Len(data)
  /\ \A c \in Range(qcalls) : c[2] <= c[1] /\ c[1] <= Len(data)

C6_Witness ==
  /\ by = AnyBy
  /\ fault = "none"
  /\ Len(input) >= 4
  /\ Len(out) = 2
  /\ out[1] > out[2]
  /\ ncmp >= 1

\* C7 (as claimed): the comparators of the PartialOrd iterators are total
\* preorders on the input: consistent under argument swap (Less one way iff
\* Greater the other way) and transitive.
C7_PartialCmpIsTotalPreorder ==
  strategy \in {"LazySortIteratorPartialFirst", "LazySortIteratorPartialLast"} =>
    /\ \A a, b \in Range(input) : (Cmp(a, b) = "Less") <=> (Cmp(b, a) = "Greater")
    /\ \A a, b, c \in Range(input) :
         (Cmp(a, b) # "Greater" /\ Cmp(b, c) # "Greater") => Cmp(a, c) # "Greater"

IsNaN(v) == v = NaN
Comparable(s) == SelectSeq(s, LAMBDA v : ~IsNaN(v))

\* C8 (as claimed): a full drain of sorted_partial_first emits every NaN before
\* every comparable element, sorted_partial_last after every comparable
\* element, and the comparable elements ascending in both cases.
C8_IncomparablePlacement ==
  (exhausted /\ strategy \in {"LazySortIteratorPartialFirst", "LazySortIteratorPartialLast"}) =>
    /\ \A i, j \in DOMAIN out :
         (IsNaN(out[i]) /\ ~IsNaN(out[j])) =>
            IF strategy = "LazySortIteratorPartialFirst" THEN i < j ELSE i > j
    /\ Ascending(Comparable(out))

\* ------------------------------------------------------------------ properties of the heap

\* C9: when no add() follows a take(), the values take() has returned are, in
\* order, the least of the added values in ascending order, each added value at
\* most once; take() returns None only when every added value has been
\* returned, and no call panics.
C9_HeapDrainsAscending ==
  phase # "mixed" =>
    /\ hfault = "none"
    /\ \A i, j \in DOMAIN taken : i < j => taken[i] <= taken[j]
    /\ \A v \in 1 .. MaxHeapVal : Count(taken, v) <= Count(added, v)
    /\ \A v \in 1 .. MaxHeapVal :
         Count(taken, v) < Count(added, v) => \A i \in DOMAIN taken : taken[i] <= v
    /\ (phase = "taking" /\ hret = None) => (Len(taken) = Len(added) /\ trees = << >>)
    /\ (phase = "taking" /\ hret # None) => (taken # << >> /\ hret[1] = taken[Len(taken)])

C9_Witness ==
  /\ phase = "taking"
  /\ hret = None
  /\ Len(added) >= 4
  /\ Len(taken) = Len(added)
  /\ \E i \in 1 .. Len(added) - 1 : added[i] > added[i + 1]
  /\ added[1] # 1

\* ------------------------------------------------------------------ properties of partition

\* the comparator of a partition call: element a against element b
PtCmp(a, b) == Compare([strategy |-> pt.strategy, by |-> pt.by, oracle |-> << >>], 0, a, b)

\* C10: partition on [upper, lower] with upper <= p <= lower returns q in
\* [upper, lower]; afterwards data[q] is the element that was at p, every
\* element at an index in [upper, q) compares Greater than it, and every
\* element at an index in (q, lower] compares not Greater than it.
C10_PartitionPostcondition ==
  pt.done =>
    LET pv == At(pt.pre, pt.p) IN
    /\ pt.fault = "none"
    /\ pt.upper <= pt.q /\ pt.q <= pt.lower
    /\ At(pt.post, pt.q) = pv
    /\ \A i \in pt.upper .. pt.q - 1 : PtCmp(At(pt.post, i), pv) = "Greater"
    /\ \A i \in pt.q + 1 .. pt.lower : PtCmp(At(pt.post, i), pv) # "Greater"

C10_Witness ==
  /\ pt.done
  /\ pt.lower - pt.upper >= 3
  /\ pt.upper < pt.q /\ pt.q < pt.lower
  /\ pt.q # pt.p
  /\ pt.post # pt.pre
  /\ \E i \in pt.q + 1 .. pt.lower : PtCmp(At(pt.post, i), At(pt.pre, pt.p)) = "Equal"

\* C11: partition only permutes the elements inside its range: positions outside
\* [upper, lower] hold the same element before and after, the buffer length is
\* unchanged, and the multiset of the elements inside the range is unchanged.
C11_PartitionFrame ==
  pt.done =>
    /\ pt.fault = "none"
    /\ Len(pt.post) = Len(pt.pre)
    /\ \A i \in 0 .. Len(pt.pre) - 1 :
         (i < pt.upper \/ i > pt.lower) => At(pt.post, i) = At(pt.pre, i)
    /\ \A v \in Range(pt.pre) \cup Range(pt.post) :
         Cardinality({i \in pt.upper .. pt.lower : At(pt.post, i) = v})
           = Cardinality({i \in pt.upper .. pt.lower : At(pt.pre, i) = v})

C11_Witness ==
  /\ pt.done
  /\ pt.upper > 0
  /\ pt.lower < Len(pt.pre) - 1
  /\ pt.lower > pt.upper
  /\ pt.post # pt.pre
  /\ At(pt.pre, 0) # At(pt.pre, pt.upper)

\* the number of elements of a range (lower, upper)
RangeSize(lower, upper) == lower - upper + 1

\* C12: partition is invoked only on ranges of at least 3 elements, with the
\* midpoint upper + (lower - upper) / 2 as pivot index, which lies inside the
\* range; ranges of 1 or 2 elements end the recursion in a base case of qsort.
C12_PartitionOnlyOnThreeOrMore ==
  /\ \A i \in DOMAIN pcalls :
       LET c == pcalls[i] IN
       /\ c[1] - c[2] >= 2
       /\ c[3] = c[2] + ((c[1] - c[2]) \div 2)
       /\ c[2] <= c[3] /\ c[3] <= c[1]
       /\ qcalls[i] = <<c[1], c[2]>>
  /\ qcalls # << >> =>
       /\ Len(pcalls) = Len(qcalls) - 1
       /\ LET b == qcalls[Len(qcalls)] IN RangeSize(b[1], b[2]) \in {1, 2}
       /\ \A i \in 1 .. Len(qcalls) - 1 : RangeSize(qcalls[i][1], qcalls[i][2]) >= 3

C12_Witness ==
  /\ Len(pcalls) >= 2
  /\ pcalls[2][2] > 0
  /\ RangeSize(qcalls[Len(qcalls)][1], qcalls[Len(qcalls)][2]) = 2
  /\ fault = "none"

\* the comparator calls of the partition calls cs: one per element but the pivot
RECURSIVE PartitionCmps(_)
PartitionCmps(cs) ==
  IF cs = << >> THEN 0 ELSE (cs[1][1] - cs[1][2]) + PartitionCmps(Tail(cs))

\* the range next() is about to pop
TopLower == work[Len(work)][1]
TopUpper == work[Len(work)][2]

\* C13: a next() that pops a range of exactly two elements makes one
\* comparison, returns the one of the two that the comparison found not
\* greater (the smaller under a valid ordering, either one if Equal), leaves
\* the other at index upper as the last buffer element and pushes exactly the
\* entry (upper, upper) for it; a next() that pops a one-element range returns
\* the element at that index, so the following call returns the other element.
\* The same holds when the two-element range is the near range a partition
\* left: one comparison after those of the partitions, the entry (upper, upper)
\* pushed last, the other element last in the buffer.
C13_PairBaseCase ==
  [][/\ (work # << >> /\ fault = "none" /\ TopLower = TopUpper + 1) =>
          LET a == At(data, TopLower)
              b == At(data, TopUpper)
              swapped == Cmp(a, b) = "Greater"
              smaller == IF swapped THEN b ELSE a
              other == IF swapped THEN a ELSE b
          IN /\ fault' = "none"
             /\ ncmp' = 1
             /\ pcalls' = << >>
             /\ ret' = Some(smaller)
             /\ ValidOrdering => Cmp(smaller, other) # "Greater"
             /\ Len(data') = Len(data) - 1
             /\ TopUpper = Len(data') - 1
             /\ At(data', TopUpper) = other
             /\ work' = Append(SubSeq(work, 1, Len(work) - 1), <<TopUpper, TopUpper>>)
     /\ (work # << >> /\ fault = "none" /\ TopLower = TopUpper) =>
          /\ ret' = Some(At(data, TopLower))
          /\ ncmp' = 0
          /\ work' = SubSeq(work, 1, Len(work) - 1)
     /\ (qcalls' # << >> /\ fault' = "none"
           /\ RangeSize(qcalls'[Len(qcalls')][1], qcalls'[Len(qcalls')][2]) = 2) =>
          LET upper == qcalls'[Len(qcalls')][2]
              other == At(data', upper)
          IN /\ ret' # None
             /\ upper = Len(data') - 1
             /\ work'[Len(work')] = <<upper, upper>>
             /\ Len(work') = Len(work) - 1 + Len(pcalls') + 1
             /\ Cmp(ret'[1], other) # "Greater" \/ Cmp(other, ret'[1]) = "Greater"
             /\ ValidOrdering => Cmp(ret'[1], other) # "Greater"
             /\ ncmp' = PartitionCmps(pcalls') + 1]_vars

C13_Witness ==
  /\ Len(input) >= 4
  /\ Len(out) >= 2
  /\ qcalls = << <<Len(data), Len(data) - 1>> >>
  /\ ncmp = 1
  /\ work # << >> /\ TopLower = Len(data) - 1 /\ TopUpper = Len(data) - 1
  /\ Cmp(ret[1], data[Len(data)]) = "Less"
  /\ input[Len(data)] # data[Len(data)]

\* the buffer indices of worklist entry e = (hi, lo)
Indices(e) == e[2] .. e[1]

\* C14: between next() calls every worklist entry (hi, lo) has hi >= lo and
\* hi < buffer length, and the index intervals of two distinct entries are
\* disjoint.
C14_WorklistWellFormed ==
  /\ \A k \in DOMAIN work : work[k][1] >= work[k][2] /\ work[k][2] >= 0
                            /\ work[k][1] < Len(data)
  /\ \A j, k \in DOMAIN work : j # k => Indices(work[j]) \cap Indices(work[k]) = {}

C14_Witness ==
  /\ Len(work) >= 2
  /\ Len(out) >= 1
  /\ \E k \in DOMAIN work : work[k][1] > work[k][2]

\* C15: between next() calls, with a valid ordering, the worklist ranges are
\* segregated in pop order: for entries A, B with A nearer the top of the
\* stack, no element of A's range compares Greater than an element of B's
\* range (lower values live at higher buffer indices).
C15_RangesSegregated ==
  (ValidOrdering /\ fault = "none") =>
    \A j, k \in DOMAIN work :
      j > k => \A x \in Indices(work[j]) : \A y \in Indices(work[k]) :
                 /\ InBounds(data, x) /\ InBounds(data, y)
                 /\ x > y
                 /\ Cmp(At(data, x), At(data, y)) # "Greater"

C15_Witness ==
  /\ ValidOrdering
  /\ Len(work) >= 2
  /\ Len(out) >= 1
  /\ \E k \in DOMAIN work : work[k][1] > work[k][2]
  /\ \E x \in Indices(work[Len(work)]) : \E y \in Indices(work[1]) :
       Cmp(At(data, x), At(data, y)) = "Less"
  /\ \E j \in 1 .. Len(input) - 1 : Cmp(input[j], input[j + 1]) = "Less"

\* C19: between next() calls the worklist ranges tile the buffer in stack
\* order: the bottom entry starts at index 0, each entry starts right after the
\* end of the entry below it, and the top entry ends at the last buffer index;
\* so the worklist is empty iff the buffer is, and a one-element range on top
\* denotes the last buffer element, the one data.pop() removes.
C19_WorklistTilesBuffer ==
  /\ work # << >> => /\ work[1][2] = 0
                     /\ work[Len(work)][1] = Len(data) - 1
  /\ \A k \in 1 .. Len(work) - 1 : work[k + 1][2] = work[k][1] + 1
  /\ (work = << >>) <=> (data = << >>)
  /\ (work # << >> /\ TopLower = TopUpper) => TopLower = Len(data) - 1

C19_Witness ==
  /\ Len(work) >= 2
  /\ Len(out) >= 1
  /\ TopLower = TopUpper
  /\ work[1][1] > work[1][2]

\* the entries the last next() pushed: those of work above the n entries kept
Pushed(w, n) == SubSeq(w, n + 1, Len(w))

\* C16: a next() that pops range R changes only buffer positions inside R: the
\* elements at indices below R keep their positions, the worklist entries below
\* R stay as they are and in the same order, and the entries pushed are
\* sub-ranges of R, pushed so that the one holding smaller elements (higher
\* indices) is popped first.
C16_NextFrame ==
  [][(work # << >> /\ fault = "none") =>
       LET kept == Len(work) - 1
           pushed == Pushed(work', kept)
       IN /\ fault' = "none"
          /\ \A i \in 0 .. TopUpper - 1 : At(data', i) = At(data, i)
          /\ Len(work') >= kept
          /\ SubSeq(work', 1, kept) = SubSeq(work, 1, kept)
          /\ \A k \in DOMAIN pushed :
               /\ TopUpper <= pushed[k][2]
               /\ pushed[k][2] <= pushed[k][1]
               /\ pushed[k][1] <= TopLower
          /\ \A j, k \in DOMAIN pushed : j < k => pushed[j][1] < pushed[k][2]
          /\ ValidOrdering =>
               \A j, k \in DOMAIN pushed : j < k =>
                 \A x \in Indices(pushed[k]) : \A y \in Indices(pushed[j]) :
                   Cmp(At(data', x), At(data', y)) # "Greater"]_vars

C16_Witness ==
  /\ Len(out) >= 2
  /\ Len(pcalls) >= 1
  /\ qcalls[1][2] > 0
  /\ Len(work) >= 3
  /\ \E i \in DOMAIN data : data[i] # input[i]

\* C17: every next() on a non-exhausted producer comes to an end: each
\* general-case step recurses into a near range strictly smaller than the
\* current one until a base case is reached, and the call removes exactly one
\* element from the buffer, the last one, and returns it.
C17_NextTerminates ==
  [][(work # << >> /\ fault = "none") =>
       /\ fault' = "none"
       /\ qcalls' # << >>
       /\ qcalls'[1] = <<TopLower, TopUpper>>
       /\ \A i \in 1 .. Len(qcalls') - 1 :
            /\ RangeSize(qcalls'[i + 1][1], qcalls'[i + 1][2])
                 < RangeSize(qcalls'[i][1], qcalls'[i][2])
            /\ RangeSize(qcalls'[i + 1][1], qcalls'[i + 1][2]) >= 1
            /\ qcalls'[i + 1][1] = qcalls'[i][1]
       /\ RangeSize(qcalls'[Len(qcalls')][1], qcalls'[Len(qcalls')][2]) \in {1, 2}
       /\ Len(qcalls') <= RangeSize(TopLower, TopUpper)
       /\ Len(data') = Len(data) - 1
       /\ ret' # None
       /\ out' = Append(out, ret'[1])
       /\ nones' = nones]_vars

C17_Witness ==
  /\ Len(qcalls) >= 3
  /\ RangeSize(qcalls[Len(qcalls)][1], qcalls[Len(qcalls)][2]) = 1
  /\ Len(data) = Len(input) - 1
  /\ ret # None
  /\ fault = "none"

\* how often value v is stored in tree t / in the trees ts, nested subtrees included
RECURSIVE TreeCount(_, _)
RECURSIVE ForestCount(_, _)
TreeCount(t, v) ==
  (IF t.node = v THEN 1 ELSE 0)
    + (IF t.subtrees = None THEN 0 ELSE ForestCount(t.subtrees[1], v))

ForestCount(ts, v) ==
  IF ts = << >> THEN 0 ELSE TreeCount(Head(ts), v) + ForestCount(Tail(ts), v)

HeapValues == {v \in 1 .. MaxHeapVal : ForestCount(trees, v) > 0}

\* C18 (as claimed): in every state reachable by add() and take() in any
\* order, when min is Some(i), i is an index into trees and trees[i].node is
\* a minimum of all the values the heap holds.
C18_MinIsMinimum ==
  min # None =>
    /\ InBounds(trees, min[1])
    /\ \A v \in HeapValues : OrdCmp(At(trees, min[1]).node, v) # "Greater"

\* C20: after add() and take() in any order the values stored in all nodes of
\* all trees, nested subtrees included, are the values added minus the values
\* take() returned, as multisets; no call panics.
C20_HeapKeepsValues ==
  /\ hfault = "none"
  /\ \A v \in 1 .. MaxHeapVal :
       ForestCount(trees, v) = Count(added, v) - Count(taken, v)
  /\ \A i \in DOMAIN taken : taken[i] \in Range(added)

C20_Witness ==
  /\ phase = "mixed"
  /\ Len(taken) >= 2
  /\ \E i \in DOMAIN trees : trees[i].subtrees # None
  /\ Len(trees) >= 2
  /\ hret # None

====
